---- MODULE Spec2Model ----
(***************************************************************************)
(* Model of src/synscanMotors.py: the motor command layer of pysynscan.    *)
(*                                                                         *)
(* The facade object is the state (self.params, self.CPR); every public    *)
(* method is one action.  The transport (synscanComm.send_cmd) is the      *)
(* environment: each call of send_cmd either raises NameError or returns a *)
(* reply, and the replies are inputs of the actions.  The exchanges of the *)
(* latest call are kept in `wire`, its outcome in `result`.                *)
(*                                                                         *)
(* Python values: a str is a sequence of one-character strings, a dict     *)
(* keyed by axis 1..2 is a sequence of length 2, {} is <<>>, an optional   *)
(* argument is <<>> (absent) or <<v>>, a float is an exact fraction        *)
(* [num, den] (the input sets keep every intermediate exactly              *)
(* representable as a double).                                             *)
(***************************************************************************)
EXTENDS Integers, Sequences, FiniteSets, TLC

VARIABLES
    params,     \* self.params: <<>> until init() stores the parameters
    CPR,        \* self.CPR: <<>> until get_parameters() succeeds
    op,         \* the latest call: [name, args]
    wire,       \* the send_cmd exchanges of the latest call, in order
    result,     \* outcome of the latest call: [kind, val] / [kind, error]
    lastGoto,   \* <<>> or <<[axis, target, raw]>>: latest target accepted by the mount
    pc,         \* position of the running call: "try", "except", "call", "done", "raised"
    frames,     \* depth of the Python call stack at the running init() frame
    attempts,   \* number of get_parameters() calls made by init()
    sleeps,     \* number of time.sleep calls made by init()
    clock       \* seconds slept by init()

vars == <<params, CPR, op, wire, result, lastGoto, pc, frames, attempts, sleeps, clock>>

(***************************************************************************)
(* Bounds and input sets                                                   *)
(***************************************************************************)
MaxLen == 4

Axes == 1..2

LowerHex == <<"0","1","2","3","4","5","6","7","8","9","a","b","c","d","e","f">>

UpperHex == <<"A","B","C","D","E","F">>

SmallAlphabet == {"0", "1", "7", "F", "g"}

Strings(alphabet, n) == [1..n -> alphabet]

StatusInputs ==
    Strings({LowerHex[i] : i \in 1..16}, 3)
        \cup UNION {Strings(SmallAlphabet, n) : n \in 0..MaxLen}

(***************************************************************************)
(* Python outcomes                                                         *)
(***************************************************************************)
Return(v) == [kind |-> "return", val |-> v]

Raise(e) == [kind |-> "raise", error |-> e]

None == "None"

EmptyDict == <<>>

(***************************************************************************)
(* Integer bit operations (&, |, >>, <<) on non-negative integers          *)
(***************************************************************************)
RECURSIVE BitAnd(_, _)
BitAnd(x, y) ==
    IF x = 0 \/ y = 0 THEN 0
    ELSE (x % 2) * (y % 2) + 2 * BitAnd(x \div 2, y \div 2)

RECURSIVE BitOr(_, _)
BitOr(x, y) ==
    IF x = 0 THEN y
    ELSE IF y = 0 THEN x
    ELSE (IF x % 2 = 1 \/ y % 2 = 1 THEN 1 ELSE 0) + 2 * BitOr(x \div 2, y \div 2)

RECURSIVE Pow2(_)
Pow2(n) == IF n = 0 THEN 1 ELSE 2 * Pow2(n - 1)

Shr(x, n) == x \div Pow2(n)

Shl(x, n) == x * Pow2(n)

PyBool(x) == x # 0

PyNot(x) == x = 0

BoolInt(b) == IF b THEN 1 ELSE 0

(***************************************************************************)
(* int(c, 16) of a one-character string                                    *)
(***************************************************************************)
IsHexChar(c) ==
    \/ \E i \in 1..16 : LowerHex[i] = c
    \/ \E i \in 1..6 : UpperHex[i] = c

HexValue(c) ==
    IF \E i \in 1..16 : LowerHex[i] = c
    THEN (CHOOSE i \in 1..16 : LowerHex[i] = c) - 1
    ELSE (CHOOSE i \in 1..6 : UpperHex[i] = c) + 9

(***************************************************************************)
(* decode_status                                                           *)
(***************************************************************************)
StatusOf_InitDoneAsDocumented(A, B, C) ==
    [Tracking      |-> PyBool(BitAnd(A, 1)),
     CCW           |-> PyBool(Shr(BitAnd(A, 2), 1)),
     FastSpeed     |-> PyBool(Shr(BitAnd(A, 4), 2)),
     Stopped       |-> PyNot(BitAnd(B, 1)),
     Blocked       |-> PyBool(Shr(BitAnd(B, 2), 1)),
     InitDone      |-> PyBool(BitAnd(C, 1)),
     LevelSwitchOn |-> PyBool(Shr(BitAnd(B, 2), 1))]

StatusOf_LevelSwitchFromC(A, B, C) ==
    [Tracking      |-> PyBool(BitAnd(A, 1)),
     CCW           |-> PyBool(Shr(BitAnd(A, 2), 1)),
     FastSpeed     |-> PyBool(Shr(BitAnd(A, 4), 2)),
     Stopped       |-> PyNot(BitAnd(B, 1)),
     Blocked       |-> PyBool(Shr(BitAnd(B, 2), 1)),
     InitDone      |-> PyNot(BitAnd(C, 1)),
     LevelSwitchOn |-> PyBool(Shr(BitAnd(C, 2), 1))]

StatusOf(A, B, C) ==
    [Tracking      |-> PyBool(BitAnd(A, 1)),
     CCW           |-> PyBool(Shr(BitAnd(A, 2), 1)),
     FastSpeed     |-> PyBool(Shr(BitAnd(A, 4), 2)),
     Stopped       |-> PyNot(BitAnd(B, 1)),
     Blocked       |-> PyBool(Shr(BitAnd(B, 2), 1)),
     InitDone      |-> PyNot(BitAnd(C, 1)),
     LevelSwitchOn |-> PyBool(Shr(BitAnd(B, 2), 1))]

\* hexstring[k] followed by int(.., 16), for the Python indices 0, 1, 2 in turn
DigitError(hexstring, k) ==
    IF Len(hexstring) < k THEN "IndexError"
    ELSE IF ~IsHexChar(hexstring[k]) THEN "ValueError"
    ELSE "none"

decode_status_ExactLength(hexstring) ==
    IF Len(hexstring) # 3 THEN Raise("ValueError")
    ELSE IF DigitError(hexstring, 1) # "none" THEN Raise(DigitError(hexstring, 1))
    ELSE IF DigitError(hexstring, 2) # "none" THEN Raise(DigitError(hexstring, 2))
    ELSE IF DigitError(hexstring, 3) # "none" THEN Raise(DigitError(hexstring, 3))
    ELSE Return(StatusOf(HexValue(hexstring[1]), HexValue(hexstring[2]),
                         HexValue(hexstring[3])))

decode_status(hexstring) ==
    IF DigitError(hexstring, 1) # "none" THEN Raise(DigitError(hexstring, 1))
    ELSE IF DigitError(hexstring, 2) # "none" THEN Raise(DigitError(hexstring, 2))
    ELSE IF DigitError(hexstring, 3) # "none" THEN Raise(DigitError(hexstring, 3))
    ELSE Return(StatusOf(HexValue(hexstring[1]), HexValue(hexstring[2]),
                         HexValue(hexstring[3])))

(***************************************************************************)
(* Transport exchange and the replies the mount may give                   *)
(***************************************************************************)
OFFSET == 8388608

Targets == {-1, 5}

RawPositions == {OFFSET - 1, OFFSET + 5}

StepPeriods == {0, 50}

Speeds == {-3, 0, 3}

StatusReplies == {<<"7","0","1">>, <<"1","3","2">>}

Replies(cmd) ==
    CASE cmd = "a" -> {360, 720}
      [] cmd = "b" -> {1000}
      [] cmd = "i" -> {50}
      [] cmd = "e" -> {517}
      [] cmd = "h" -> RawPositions
      [] cmd = "j" -> RawPositions
      [] cmd = "f" -> StatusReplies
      [] OTHER     -> {0}

\* One call of send_cmd as seen from the facade: the arguments passed and
\* what came back (<<>>: NameError raised, <<v>>: v returned).
send_cmd(cmd, axis, data, ndigits, reply) ==
    [cmd |-> cmd, axis |-> axis, data |-> data, ndigits |-> ndigits, reply |-> reply]

CommError == "NameError"

Failed(reply) == reply = <<>>

\* A single send_cmd call made by a method that lets NameError propagate.
OneShot(exchange, value) ==
    [wire   |-> <<exchange>>,
     result |-> IF Failed(exchange.reply) THEN Raise(CommError) ELSE Return(value)]

(***************************************************************************)
(* get_values, get_parameters, get_current_values                          *)
(***************************************************************************)
ParameterDict ==
    << <<"countsPerRevolution", "a">>, <<"TimerInterruptFreq", "b">>,
       <<"StepPeriod", "i">>, <<"MotorBoardVersion", "e">> >>

CurrentDict ==
    << <<"GotoTarget", "h">>, <<"Position", "j">>,
       <<"StepPeriod", "i">>, <<"Status", "f">> >>

Min(S) == CHOOSE x \in S : \A y \in S : x <= y

QueryAxis(parameterDict, i) == ((i - 1) \div Len(parameterDict)) + 1

QueryItem(parameterDict, i) == parameterDict[((i - 1) % Len(parameterDict)) + 1]

QueryIndex(parameterDict, axis, parameter) ==
    (axis - 1) * Len(parameterDict)
        + (CHOOSE k \in 1..Len(parameterDict) : parameterDict[k][1] = parameter)

\* The replies the transport gives to the successive queries of one get_values
\* call: nothing is asked after the first failure.
AxisReplies(parameterDict) ==
    {<<w, x, y, z>> : w \in Replies(parameterDict[1][2]), x \in Replies(parameterDict[2][2]),
                      y \in Replies(parameterDict[3][2]), z \in Replies(parameterDict[4][2])}

Scripts(parameterDict) ==
    {[i \in 1..8 |-> IF n # 0 /\ i >= n THEN <<>> ELSE <<(a1 \o a2)[i]>>] :
        n \in 0..8, a1 \in AxisReplies(parameterDict), a2 \in AxisReplies(parameterDict)}

ParameterScripts == Scripts(ParameterDict)

CurrentScripts == Scripts(CurrentDict)

get_values(parameterDict, script) ==
    LET total == 2 * Len(parameterDict)
        names == {parameterDict[k][1] : k \in 1..Len(parameterDict)}
        failed == {i \in 1..total : Failed(script[i])}
        last == IF failed = {} THEN total ELSE Min(failed)
    IN  [wire   |-> [i \in 1..last |->
                        send_cmd(QueryItem(parameterDict, i)[2],
                                 QueryAxis(parameterDict, i), <<>>, <<>>, script[i])],
         result |-> IF failed = {}
                    THEN Return([axis \in Axes |->
                            [p \in names |->
                                script[QueryIndex(parameterDict, axis, p)][1]]])
                    ELSE Raise("NameError:getValuesError")]

get_parameters_ReturnEmpty(script) ==
    LET r == get_values(ParameterDict, script)
    IN  IF r.result.kind = "raise"
        THEN [wire |-> r.wire, result |-> Return(EmptyDict), assigned |-> <<>>]
        ELSE [wire |-> r.wire, result |-> Return(r.result.val),
              assigned |-> <<r.result.val>>]

\* assigned: <<>> when self.CPR is left alone, <<v>> when line 123 stores v.
get_parameters(script) ==
    LET r == get_values(ParameterDict, script)
    IN  IF r.result.kind = "raise"
        THEN [wire |-> r.wire, result |-> Raise("NameError:getParametersError"),
              assigned |-> <<>>]
        ELSE [wire |-> r.wire, result |-> Return(r.result.val),
              assigned |-> <<r.result.val>>]

WithOffsetRemoved(axisValues) ==
    [axisValues EXCEPT !.GotoTarget = @ - OFFSET, !.Position = @ - OFFSET]

get_current_values_Reraise(script) ==
    LET r == get_values(CurrentDict, script)
        corrected == [axis \in Axes |-> WithOffsetRemoved(r.result.val[axis])]
        status(axis) == decode_status(corrected[axis].Status)
    IN  IF r.result.kind = "raise"
        THEN [wire |-> r.wire, result |-> Raise("NameError:getCurrentValuesError")]
        ELSE IF status(1).kind = "raise" THEN [wire |-> r.wire, result |-> status(1)]
        ELSE IF status(2).kind = "raise" THEN [wire |-> r.wire, result |-> status(2)]
        ELSE [wire   |-> r.wire,
              result |-> Return([axis \in Axes |->
                            [corrected[axis] EXCEPT !.Status = status(axis).val]])]

get_current_values(script) ==
    LET r == get_values(CurrentDict, script)
        corrected == [axis \in Axes |-> WithOffsetRemoved(r.result.val[axis])]
        status(axis) == decode_status(corrected[axis].Status)
    IN  IF r.result.kind = "raise"
        THEN [wire |-> r.wire, result |-> Return(EmptyDict)]
        ELSE IF status(1).kind = "raise" THEN [wire |-> r.wire, result |-> status(1)]
        ELSE IF status(2).kind = "raise" THEN [wire |-> r.wire, result |-> status(2)]
        ELSE [wire   |-> r.wire,
              result |-> Return([axis \in Axes |->
                            [corrected[axis] EXCEPT !.Status = status(axis).val]])]

(***************************************************************************)
(* Unit conversion: floats as exact fractions                              *)
(***************************************************************************)
Abs(x) == IF x < 0 THEN -x ELSE x

\* int(q): truncation toward zero
PyInt(q) ==
    LET neg == (q.num < 0) # (q.den < 0)
        mag == Abs(q.num) \div Abs(q.den)
    IN  IF neg THEN -mag ELSE mag

degrees2counts(self, axis, degrees) ==
    [num |-> degrees * self[axis].countsPerRevolution, den |-> 360]

counts2degrees(self, axis, counts) ==
    [num |-> counts * 360, den |-> self[axis].countsPerRevolution]

T1preset_ZeroSpeedGivesZero(self, axis, degreesPerSecond) ==
    LET countsPerSecond == degrees2counts(self, axis, degreesPerSecond)
        TMR_Freq == self[axis].TimerInterruptFreq
    IN  IF countsPerSecond.num = 0
        THEN Return([num |-> 0, den |-> 1])
        ELSE Return([num |-> TMR_Freq * countsPerSecond.den, den |-> countsPerSecond.num])

T1preset(self, axis, degreesPerSecond) ==
    LET countsPerSecond == degrees2counts(self, axis, degreesPerSecond)
        TMR_Freq == self[axis].TimerInterruptFreq
    IN  IF countsPerSecond.num = 0
        THEN Raise("ZeroDivisionError")
        ELSE Return([num |-> TMR_Freq * countsPerSecond.den, den |-> countsPerSecond.num])

(***************************************************************************)
(* Motion commands                                                         *)
(***************************************************************************)
MotionModeValue_SameSpeedBit(Tracking, fastSpeed, CW) ==
    LET speedBit == IF fastSpeed THEN 1 ELSE 0
    IN  BitOr(BitOr(BitAnd(BoolInt(Tracking), 1), Shl(speedBit, 1)),
              Shl(BitAnd(BoolInt(CW), 1), 7))

MotionModeValue(Tracking, fastSpeed, CW) ==
    LET speedBit == IF Tracking
                    THEN (IF fastSpeed THEN 0 ELSE 1)
                    ELSE (IF fastSpeed THEN 1 ELSE 0)
    IN  BitOr(BitOr(BitAnd(BoolInt(Tracking), 1), Shl(speedBit, 1)),
              Shl(BitAnd(BoolInt(CW), 1), 7))

set_motion_mode(axis, Tracking, fastSpeed, CW, reply) ==
    OneShot(send_cmd("G", axis, <<MotionModeValue(Tracking, fastSpeed, CW)>>, <<2>>, reply),
            reply[1])

set_step_period(axis, value, reply) ==
    OneShot(send_cmd("I", axis, <<value>>, <<>>, reply), reply[1])

set_speed_Retry(self, axis, degreesPerSecond, reply) ==
    LET preset == T1preset(self, axis, degreesPerSecond)
        sent == set_step_period(axis, PyInt(preset.val), reply)
    IN  IF preset.kind = "raise" THEN [wire |-> <<>>, result |-> preset]
        ELSE IF sent.result.kind = "raise"
        THEN [wire |-> sent.wire \o sent.wire, result |-> sent.result]
        ELSE [wire |-> sent.wire, result |-> Return(None)]

set_speed(self, axis, degreesPerSecond, reply) ==
    LET preset == T1preset(self, axis, degreesPerSecond)
        sent == set_step_period(axis, PyInt(preset.val), reply)
    IN  IF preset.kind = "raise" THEN [wire |-> <<>>, result |-> preset]
        ELSE IF sent.result.kind = "raise" THEN sent
        ELSE [wire |-> sent.wire, result |-> Return(None)]

get_axis_pos_NoOffset(axis, reply) ==
    OneShot(send_cmd("j", axis, <<>>, <<>>, reply), reply[1])

get_axis_pos(axis, reply) ==
    OneShot(send_cmd("j", axis, <<>>, <<>>, reply), reply[1] - OFFSET)

set_goto_target(axis, target, reply) ==
    OneShot(send_cmd("S", axis, <<target + OFFSET>>, <<>>, reply), reply[1])

start_motion(axis, reply) ==
    OneShot(send_cmd("J", axis, <<>>, <<>>, reply), reply[1])

stop_motion(axis, reply) ==
    OneShot(send_cmd("K", axis, <<>>, <<>>, reply), reply[1])

(***************************************************************************)
(* The constructed facade and its methods as actions                       *)
(***************************************************************************)
ReplyOrFailure(cmd) == {<<>>} \cup {<<v>> : v \in Replies(cmd)}

Call(name, args) == [name |-> name, args |-> args]

\* The parameter sets a successful get_parameters can return.
ParameterResults ==
    {get_values(ParameterDict, s).result.val :
        s \in {t \in ParameterScripts : \A i \in 1..8 : ~Failed(t[i])}}

InitBookkeeping ==
    /\ pc = "done"
    /\ frames = 3
    /\ attempts = 1
    /\ sleeps = 0
    /\ clock = 0

\* State after construction, when the first fetch succeeded.
Init ==
    /\ params \in ParameterResults
    /\ CPR = params
    /\ op = Call("__init__", <<>>)
    /\ wire = <<>>
    /\ result = Return(None)
    /\ lastGoto = <<>>
    /\ InitBookkeeping

Outcome(name, args, r) ==
    /\ op' = Call(name, args)
    /\ wire' = r.wire
    /\ result' = r.result

\* What one call can do, over every behaviour of the transport.
ParameterOutcomes == {get_parameters(script) : script \in ParameterScripts}

CurrentOutcomes == {get_current_values(script) : script \in CurrentScripts}

CallGetParameters ==
    \E r \in ParameterOutcomes :
        /\ Outcome("get_parameters", <<>>, r)
        /\ CPR' = IF r.assigned = <<>> THEN CPR ELSE r.assigned[1]
        /\ UNCHANGED <<params, lastGoto, pc, frames, attempts, sleeps, clock>>

CallGetCurrentValues ==
    \E r \in CurrentOutcomes :
        /\ Outcome("get_current_values", <<>>, r)
        /\ UNCHANGED <<params, CPR, lastGoto, pc, frames, attempts, sleeps, clock>>

CallSetMotionMode ==
    \E axis \in Axes, Tracking \in BOOLEAN, fastSpeed \in BOOLEAN, CW \in BOOLEAN,
       reply \in ReplyOrFailure("G") :
        /\ Outcome("set_motion_mode", <<axis, Tracking, fastSpeed, CW>>,
                   set_motion_mode(axis, Tracking, fastSpeed, CW, reply))
        /\ UNCHANGED <<params, CPR, lastGoto, pc, frames, attempts, sleeps, clock>>

CallSetStepPeriod ==
    \E axis \in Axes, value \in StepPeriods, reply \in ReplyOrFailure("I") :
        /\ Outcome("set_step_period", <<axis, value>>, set_step_period(axis, value, reply))
        /\ UNCHANGED <<params, CPR, lastGoto, pc, frames, attempts, sleeps, clock>>

CallSetSpeed ==
    \E axis \in Axes, degreesPerSecond \in Speeds, reply \in ReplyOrFailure("I") :
        /\ Outcome("set_speed", <<axis, degreesPerSecond>>,
                   set_speed(params, axis, degreesPerSecond, reply))
        /\ UNCHANGED <<params, CPR, lastGoto, pc, frames, attempts, sleeps, clock>>

CallGetAxisPos ==
    \E axis \in Axes, reply \in ReplyOrFailure("j") :
        /\ Outcome("get_axis_pos", <<axis>>, get_axis_pos(axis, reply))
        /\ UNCHANGED <<params, CPR, lastGoto, pc, frames, attempts, sleeps, clock>>

\* The mount keeps the raw target of a command it acknowledged.
CallSetGotoTarget ==
    \E axis \in Axes, target \in Targets, reply \in ReplyOrFailure("S") :
        LET r == set_goto_target(axis, target, reply)
        IN  /\ Outcome("set_goto_target", <<axis, target>>, r)
            /\ lastGoto' = IF Failed(reply) THEN lastGoto
                           ELSE <<[axis |-> axis, target |-> target,
                                   raw |-> r.wire[1].data[1]]>>
            /\ UNCHANGED <<params, CPR, pc, frames, attempts, sleeps, clock>>

CallStartMotion ==
    \E axis \in Axes, reply \in ReplyOrFailure("J") :
        /\ Outcome("start_motion", <<axis>>, start_motion(axis, reply))
        /\ UNCHANGED <<params, CPR, lastGoto, pc, frames, attempts, sleeps, clock>>

CallStopMotion ==
    \E axis \in Axes, reply \in ReplyOrFailure("K") :
        /\ Outcome("stop_motion", <<axis>>, stop_motion(axis, reply))
        /\ UNCHANGED <<params, CPR, lastGoto, pc, frames, attempts, sleeps, clock>>

Next ==
    \/ CallGetParameters
    \/ CallGetCurrentValues
    \/ CallSetMotionMode
    \/ CallSetStepPeriod
    \/ CallSetSpeed
    \/ CallGetAxisPos
    \/ CallSetGotoTarget
    \/ CallStartMotion
    \/ CallStopMotion

Spec == Init /\ [][Next]_vars

(***************************************************************************)
(* decode_status as a pure function of its argument: the argument is drawn *)
(* at the start and the call is made once                                  *)
(***************************************************************************)
InitDecode ==
    /\ params \in ParameterResults
    /\ CPR = params
    /\ \E hexstring \in StatusInputs : op = Call("decode_status", <<hexstring>>)
    /\ wire = <<>>
    /\ result = Return(None)
    /\ lastGoto = <<>>
    /\ pc = "call"
    /\ frames = 3
    /\ attempts = 1
    /\ sleeps = 0
    /\ clock = 0

CallDecodeStatus ==
    /\ pc = "call"
    /\ result' = decode_status(op.args[1])
    /\ pc' = "done"
    /\ UNCHANGED <<params, CPR, op, wire, lastGoto, frames, attempts, sleeps, clock>>

NextDecode == CallDecodeStatus

SpecDecode == InitDecode /\ [][NextDecode]_vars

(***************************************************************************)
(* Construction: __init__ calls init(), which calls itself to retry        *)
(***************************************************************************)
retrySec == 2

\* CPython's default recursion limit: a call that would make the stack deeper
\* raises RecursionError, which is no NameError and so passes every handler here.
RecursionLimit == 1000

\* Frames below the first init(): the module level (line 264), __init__ (line 55).
BaseFrames == 2

\* Frames one fetch puts on top of init(): get_parameters, get_values, send_cmd
\* (the transport and the logging calls can only need more).
FetchFrames == 3

InitConstruct ==
    /\ params = <<>>
    /\ CPR = <<>>
    /\ op = Call("init", <<>>)
    /\ wire = <<>>
    /\ result = Return(None)
    /\ lastGoto = <<>>
    /\ pc = "try"
    /\ frames = BaseFrames + 1
    /\ attempts = 0
    /\ sleeps = 0
    /\ clock = 0

\* Line 62: self.params = self.get_parameters()
InitTry ==
    /\ pc = "try"
    /\ frames + FetchFrames <= RecursionLimit
    /\ attempts' = attempts + 1
    /\ \E r \in ParameterOutcomes :
        /\ wire' = r.wire
        /\ CPR' = IF r.assigned = <<>> THEN CPR ELSE r.assigned[1]
        /\ IF r.result.kind = "return"
           THEN /\ params' = r.result.val
                /\ pc' = "done"
                /\ result' = Return(None)
           ELSE /\ params' = params
                /\ pc' = "except"
                /\ result' = r.result
    /\ UNCHANGED <<op, lastGoto, frames, sleeps, clock>>

\* Line 62 when the stack has no room left for the fetch.
InitOverflow ==
    /\ pc = "try"
    /\ frames + FetchFrames > RecursionLimit
    /\ attempts' = attempts + 1
    /\ pc' = "raised"
    /\ result' = Raise("RecursionError")
    /\ wire' = <<>>
    /\ UNCHANGED <<params, CPR, op, lastGoto, frames, sleeps, clock>>

\* Lines 63-67: the handler sleeps and calls init() again, one frame deeper.
InitRetry ==
    /\ pc = "except"
    /\ sleeps' = sleeps + 1
    /\ clock' = clock + retrySec
    /\ frames' = frames + 1
    /\ pc' = "try"
    /\ UNCHANGED <<params, CPR, op, wire, result, lastGoto, attempts>>

NextInit ==
    \/ InitTry
    \/ InitOverflow
    \/ InitRetry

SpecInit == InitConstruct /\ [][NextInit]_vars

(***************************************************************************)
(* Properties                                                              *)
(***************************************************************************)
Bit(n, d) == (d \div Pow2(n)) % 2 = 1

Decoded == pc = "done" /\ op.name = "decode_status"

Arg == op.args[1]

AnyFailed == \E i \in 1..Len(wire) : Failed(wire[i].reply)

\* The commands of the exchanges made, in order.
Letters == [i \in 1..Len(wire) |-> wire[i].cmd]

AxesAsked == [i \in 1..Len(wire) |-> wire[i].axis]

IsPrefix(s, t) == Len(s) <= Len(t) /\ \A i \in 1..Len(s) : s[i] = t[i]

C10_Original ==
    (Decoded /\ (Len(Arg) # 3 \/ \E k \in 1..Len(Arg) : ~IsHexChar(Arg[k]))) =>
        result.kind = "raise"

\* C10 amended: decode_status fails exactly when the string is shorter than 3
\* or one of its first three characters is not a hex digit; characters after
\* the third are never read, so a longer string decodes as its first three.
C10_Amended ==
    Decoded =>
        LET bad == Len(Arg) < 3 \/ \E k \in 1..3 : ~IsHexChar(Arg[k])
        IN  /\ result.kind = "raise" <=> bad
            /\ ~bad => result =
                  Return([Tracking |-> Bit(0, HexValue(Arg[1])),
                          CCW |-> Bit(1, HexValue(Arg[1])),
                          FastSpeed |-> Bit(2, HexValue(Arg[1])),
                          Stopped |-> ~Bit(0, HexValue(Arg[2])),
                          Blocked |-> Bit(1, HexValue(Arg[2])),
                          InitDone |-> ~Bit(0, HexValue(Arg[3])),
                          LevelSwitchOn |-> Bit(1, HexValue(Arg[2]))])

C10_Witness ==
    Decoded /\ Arg = <<"7","0","1","g">> /\ result.kind = "return"

C5_CurrentValues ==
    op.name = "get_current_values" =>
        /\ result.kind = "return"
        /\ IsPrefix(Letters, <<"h","j","i","f","h","j","i","f">>)
        /\ IsPrefix(AxesAsked, <<1, 1, 1, 1, 2, 2, 2, 2>>)
        /\ AnyFailed => result.val = EmptyDict
        /\ ~AnyFailed =>
              /\ Len(wire) = 8
              /\ Len(result.val) = 2
              /\ \A axis \in Axes :
                    LET base == 4 * (axis - 1)
                        got == result.val[axis]
                    IN  /\ DOMAIN got = {"GotoTarget", "Position", "StepPeriod", "Status"}
                        /\ got.GotoTarget = wire[base + 1].reply[1] - 8388608
                        /\ got.Position = wire[base + 2].reply[1] - 8388608
                        /\ got.StepPeriod = wire[base + 3].reply[1]
                        /\ Return(got.Status) = decode_status(wire[base + 4].reply[1])

C5_Witness ==
    /\ op.name = "get_current_values"
    /\ Len(wire) = 6
    /\ Failed(wire[6].reply)
    /\ result = Return(EmptyDict)

\* C6: get_parameters never returns partial results: when one of the queries
\* (a, b, i, e on axis 1, then on axis 2) fails, the fetch ends with an error,
\* nothing is sent after the failing query and the cached parameters stay as
\* they were; a returned result holds all four fields for both axes.
C6_State ==
    op.name = "get_parameters" =>
        /\ IsPrefix(Letters, <<"a","b","i","e","a","b","i","e">>)
        /\ IsPrefix(AxesAsked, <<1, 1, 1, 1, 2, 2, 2, 2>>)
        /\ \A i \in 1..(Len(wire) - 1) : ~Failed(wire[i].reply)
        /\ AnyFailed <=> result.kind = "raise"
        /\ result.kind = "return" =>
              /\ Len(wire) = 8
              /\ Len(result.val) = 2
              /\ \A axis \in Axes :
                    /\ DOMAIN result.val[axis] =
                          {"countsPerRevolution", "TimerInterruptFreq",
                           "StepPeriod", "MotorBoardVersion"}
                    /\ \A i \in 1..4 :
                          result.val[axis][ParameterDict[i][1]]
                              = wire[4 * (axis - 1) + i].reply[1]

C6_FailedFetchKeepsCache ==
    (op'.name = "get_parameters" /\ result'.kind = "raise") =>
        (CPR' = CPR /\ params' = params)

C6_NoPartialParameters == []C6_State /\ [][C6_FailedFetchKeepsCache]_vars

C6_Witness ==
    /\ op.name = "get_parameters"
    /\ Len(wire) = 3
    /\ Failed(wire[3].reply)
    /\ result = Raise("NameError:getParametersError")
    /\ CPR = params

\* C7: the 0x800000 offset is applied once in each direction: set_goto_target
\* sends target + 0x800000; get_axis_pos and the GotoTarget and Position of
\* get_current_values give raw - 0x800000, StepPeriod is not offset; so when the
\* mount reports the raw value set_goto_target sent, the host reads the target.
C7_OffsetOnce ==
    /\ op.name = "set_goto_target" =>
          /\ Len(wire) = 1
          /\ wire[1].cmd = "S"
          /\ wire[1].data = <<op.args[2] + 8388608>>
          /\ wire[1].data[1] - 8388608 = op.args[2]
    /\ (op.name = "get_axis_pos" /\ result.kind = "return") =>
          /\ result.val = wire[1].reply[1] - 8388608
          /\ result.val + 8388608 = wire[1].reply[1]
          /\ (/\ lastGoto # <<>>
              /\ lastGoto[1].axis = op.args[1]
              /\ wire[1].reply = <<lastGoto[1].raw>>) => result.val = lastGoto[1].target
    /\ (op.name = "get_current_values" /\ result.kind = "return" /\ result.val # EmptyDict) =>
          \A axis \in Axes :
              LET base == 4 * (axis - 1)
              IN  /\ result.val[axis].GotoTarget = wire[base + 1].reply[1] - 8388608
                  /\ result.val[axis].Position = wire[base + 2].reply[1] - 8388608
                  /\ result.val[axis].StepPeriod = wire[base + 3].reply[1]
                  /\ (/\ lastGoto # <<>>
                      /\ lastGoto[1].axis = axis
                      /\ wire[base + 1].reply = <<lastGoto[1].raw>>)
                        => result.val[axis].GotoTarget = lastGoto[1].target

C7_Witness ==
    /\ op.name = "get_axis_pos"
    /\ result.kind = "return"
    /\ lastGoto # <<>>
    /\ lastGoto[1].axis = op.args[1]
    /\ lastGoto[1].target = -1
    /\ wire[1].reply = <<lastGoto[1].raw>>
    /\ result.val = -1

SingleShot(name) ==
    CASE name = "set_step_period" -> "I"
      [] name = "get_axis_pos"    -> "j"
      [] name = "set_goto_target" -> "S"
      [] name = "start_motion"    -> "J"
      [] name = "stop_motion"     -> "K"
      [] name = "set_speed"       -> "I"
      [] OTHER                    -> "none"

OneRoundTrip ==
    /\ Len(wire) = 1
    /\ wire[1].cmd = SingleShot(op.name)
    /\ wire[1].axis = op.args[1]
    /\ Failed(wire[1].reply) => result = Raise(CommError)
    /\ ~Failed(wire[1].reply) => result.kind = "return"

\* C8 as stated: set_step_period, get_axis_pos, set_goto_target, start_motion,
\* stop_motion and set_speed each make exactly one round trip with their letter
\* (I, j, S, J, K, I); a failed round trip reaches the caller as the
\* communication error and is not tried again.
C8_Original == SingleShot(op.name) # "none" => OneRoundTrip

\* C8 amended: the same, except that set_speed makes its one 'I' round trip only
\* when the step period can be computed; with degreesPerSecond = 0 it raises
\* before any round trip.
C8_Amended ==
    /\ (SingleShot(op.name) # "none" /\ ~(op.name = "set_speed" /\ op.args[2] = 0))
          => OneRoundTrip
    /\ (op.name = "set_speed" /\ op.args[2] = 0)
          => (wire = <<>> /\ result.kind = "raise")

C8_Witness ==
    /\ op.name = "set_speed"
    /\ op.args[2] = -3
    /\ Len(wire) = 1
    /\ wire[1].data = <<-333>>
    /\ Failed(wire[1].reply)
    /\ result = Raise(CommError)

\* C9: T1preset fails, and returns no value, when degreesPerSecond is 0, for
\* each axis whose parameters are loaded; so set_speed(axis, 0) fails before
\* any command is sent.
C9_ZeroSpeedFails ==
    /\ \A axis \in Axes : T1preset(params, axis, 0).kind = "raise"
    /\ (op.name = "set_speed" /\ op.args[2] = 0) =>
          (result.kind = "raise" /\ wire = <<>>)

C9_Witness ==
    /\ op.name = "set_speed"
    /\ op.args = <<2, 0>>
    /\ result = Raise("ZeroDivisionError")
    /\ wire = <<>>

\* C4 as stated: init() blocks until a fetch succeeds: every failed attempt is
\* followed by a 2 second sleep and another attempt, without bound, so init()
\* never ends with an error, and when it returns after k failures there were k
\* sleeps, k + 1 attempts, and the cache holds the result of the last attempt.
C4_RetriesUntilSuccess ==
    /\ pc # "raised"
    /\ pc = "done" =>
          /\ sleeps = attempts - 1
          /\ clock = 2 * sleeps
          /\ Len(wire) = 8
          /\ ~AnyFailed
          /\ \A axis \in Axes : \A i \in 1..4 :
                params[axis][ParameterDict[i][1]] = wire[4 * (axis - 1) + i].reply[1]

====
